---- MODULE Spec2Model ----
(***************************************************************************)
(* Line-classification and date-resolution engine of the statement         *)
(* analyzer: parse_emiratesislamic (src/parsers/emiratesislamic.py) and    *)
(* parse_rakbank (src/parsers/rakbank.py).                                 *)
(*                                                                         *)
(* Representation.  A text line is a record of the tokens the regular      *)
(* expressions of the parsers look at: its form (which of the line         *)
(* grammars its layout follows), its free text as a sequence of words, its *)
(* date tokens, its amount tokens as sequences of characters and its       *)
(* credit markers.  Amounts are integers in hundredths (float values with  *)
(* two decimals).  An ISO date string "YYYY-MM-DD" is the tuple            *)
(* <<y, m, d>>; None is the empty tuple.  Substring tests on lowercase     *)
(* text are made word by word (see Contains).                              *)
(***************************************************************************)
EXTENDS Integers, Sequences, FiniteSets, TLC

\* ------------------------------------------------------------------ bounds
\* lines read in one call
MaxLines == 4
\* lines read in a call that precedes the two calls on the same document
MaxPriorLines == 2
\* lines and pages of a document that is parsed twice
MaxDocLines == 2
MaxDocPages == 2

\* ------------------------------------------------------------- text, words
None == <<>>

Words ==
  { "SHOP", "STORE", "Payment", "Received", "REFUND", "Repayments", "Cashback",
    "Minimum", "Due", "Card", "Number", "Statement", "Period:" }

\* str.lower() on one word
lower(w) ==
  CASE w = "SHOP" -> "shop"
    [] w = "STORE" -> "store"
    [] w = "Payment" -> "payment"
    [] w = "Received" -> "received"
    [] w = "REFUND" -> "refund"
    [] w = "Repayments" -> "repayments"
    [] w = "Cashback" -> "cashback"
    [] w = "Minimum" -> "minimum"
    [] w = "Due" -> "due"
    [] w = "Card" -> "card"
    [] w = "Number" -> "number"
    [] w = "Statement" -> "statement"
    [] w = "Period:" -> "period:"
    [] OTHER -> w

\* str.lower() on a text
Low(ws) == [i \in 1..Len(ws) |-> lower(ws[i])]

\* pairs <<word, piece>>: the piece is a proper substring of the lowercase word
Infix ==
  { <<"repayments", "payment">>, <<"period:", "period">> }

\* the lowercase word w, at the place of the piece k of a phrase: pieces at the
\* end of a phrase may be followed by more characters of the word, a
\* one-word phrase may sit anywhere in the word
WordHas(w, k) == w = k \/ <<w, k>> \in Infix

\* `phrase in text` of Python, on lowercase word sequences
Contains(text, phrase) ==
  \E i \in 1..Len(text) :
    /\ i + Len(phrase) - 1 <= Len(text)
    /\ \A j \in 1..Len(phrase) :
         IF j = Len(phrase) THEN WordHas(text[i + j - 1], phrase[j])
         ELSE text[i + j - 1] = phrase[j]

RECURSIVE Flatten(_)
\* " ".join(parts) as a word sequence
Flatten(parts) ==
  IF parts = <<>> THEN <<>> ELSE Head(parts) \o Flatten(Tail(parts))

Last(s) == s[Len(s)]

\* ----------------------------------------------------------------- amounts
Digits == { "0", "1", "2", "3", "4", "5", "6", "7", "8", "9" }

DigitVal(c) ==
  CASE c = "0" -> 0 [] c = "1" -> 1 [] c = "2" -> 2 [] c = "3" -> 3
    [] c = "4" -> 4 [] c = "5" -> 5 [] c = "6" -> 6 [] c = "7" -> 7
    [] c = "8" -> 8 [] c = "9" -> 9

\* val.replace(",", ""): the characters of val that are no grouping separator
RECURSIVE StripCommas(_)
StripCommas(val) ==
  IF val = <<>> THEN <<>>
  ELSE IF Head(val) = "," THEN StripCommas(Tail(val))
       ELSE <<Head(val)>> \o StripCommas(Tail(val))

RECURSIVE IntOf(_)
\* the number a digit string denotes
IntOf(ds) ==
  IF ds = <<>> THEN 0 ELSE 10 * IntOf(SubSeq(ds, 1, Len(ds) - 1)) + DigitVal(Last(ds))

AllDigits(s) == \A i \in 1..Len(s) : s[i] \in Digits

\* [\d,]+\.\d{2} : the amount token of LINE_REGEX and RAKBANK_FX_REGEX
AmountEscaped(tok) ==
  /\ Len(tok) >= 4
  /\ \A i \in 1..(Len(tok) - 3) : tok[i] \in Digits \cup { "," }
  /\ tok[Len(tok) - 2] = "."
  /\ tok[Len(tok) - 1] \in Digits /\ tok[Len(tok)] \in Digits

\* [\d,]+.\d{2} : the amount and balance tokens of RAKBANK_LINE_REGEX, whose
\* dot is not escaped and matches any character
AmountUnescaped(tok) ==
  /\ Len(tok) >= 4
  /\ \A i \in 1..(Len(tok) - 3) : tok[i] \in Digits \cup { "," }
  /\ tok[Len(tok) - 1] \in Digits /\ tok[Len(tok)] \in Digits

\* float(v) succeeds: digits, or digits "." digits (the tokens of the model
\* hold no sign, exponent or underscore)
FloatOk(v) ==
  \/ v # <<>> /\ AllDigits(v)
  \/ \E p \in 1..Len(v) :
       /\ v[p] = "."
       /\ AllDigits(SubSeq(v, 1, p - 1))
       /\ AllDigits(SubSeq(v, p + 1, Len(v)))
       /\ Len(v) > 1

\* float(v) in hundredths, for v with at most two decimals
FloatOf(v) ==
  IF AllDigits(v) THEN 100 * IntOf(v)
  ELSE LET p == CHOOSE q \in 1..Len(v) : v[q] = "."
           frac == SubSeq(v, p + 1, Len(v))
       IN 100 * IntOf(SubSeq(v, 1, p - 1))
          + (IF Len(frac) = 0 THEN 0
             ELSE IF Len(frac) = 1 THEN 10 * IntOf(frac)
             ELSE IntOf(SubSeq(frac, 1, 2)))

\* emiratesislamic.clean_amount: 0.0 for an empty or unparseable token
clean_amount_ei(val) ==
  IF val = <<>> THEN 0
  ELSE LET v == StripCommas(val)
       IN IF FloatOk(v) THEN FloatOf(v) ELSE 0

\* rakbank.clean_amount raises ValueError: float() is not guarded
clean_amount_rak_raises(val) ==
  val # <<>> /\ ~FloatOk(StripCommas(val))

\* rakbank.clean_amount, where it returns
clean_amount_rak(val) ==
  IF val = <<>> THEN 0 ELSE FloatOf(StripCommas(val))

\* ------------------------------------------------------------------- dates
\* A date token of a line: day, ordinal suffix, month name (statement-period
\* dates, "14 AUG" transaction dates; y = 0 when the token has no year) or
\* month number m (dd/mm/yyyy tokens; mon = "").
NoDate == [d |-> 0, ord |-> "", mon |-> "", m |-> 0, y |-> 0]

NamedDate(d, ord, mon, y) == [d |-> d, ord |-> ord, mon |-> mon, m |-> 0, y |-> y]

NumDate(d, m, y) == [d |-> d, ord |-> "", mon |-> "", m |-> m, y |-> y]

\* %b of strptime (case-insensitive): 0 when the name is no abbreviated month
MonthAbbr(mon) ==
  CASE mon \in { "Jan", "JAN" } -> 1
    [] mon \in { "Feb", "FEB" } -> 2
    [] mon \in { "May", "MAY" } -> 5
    [] mon \in { "Jun", "JUN" } -> 6
    [] mon \in { "Jul", "JUL" } -> 7
    [] mon \in { "Aug", "AUG" } -> 8
    [] mon \in { "Dec", "DEC" } -> 12
    [] OTHER -> 0

\* %B of strptime (case-insensitive): 0 when the name is no full month name
MonthFull(mon) ==
  CASE mon \in { "January" } -> 1
    [] mon \in { "May", "MAY" } -> 5
    [] mon \in { "June", "JUNE" } -> 6
    [] mon \in { "July" } -> 7
    [] mon \in { "December" } -> 12
    [] OTHER -> 0

IsLeap(y) == (y % 4 = 0 /\ y % 100 # 0) \/ y % 400 = 0

DaysIn(m, y) ==
  IF m = 2 THEN (IF IsLeap(y) THEN 29 ELSE 28)
  ELSE IF m \in { 4, 6, 9, 11 } THEN 30 ELSE 31

\* datetime.date(y, m, d) exists
ValidDate(y, m, d) ==
  /\ y >= 1 /\ y <= 9999
  /\ m >= 1 /\ m <= 12
  /\ d >= 1 /\ d <= DaysIn(m, y)

\* _strip_ordinal: the st/nd/rd/th after the day number is removed
_strip_ordinal(t) == [t EXCEPT !.ord = ""]

\* _parse_full_date: "%d %b %Y", then "%d %B %Y"; the ISO date or None
_parse_full_date(t) ==
  LET c == _strip_ordinal(t)
      ma == MonthAbbr(c.mon)
      mf == MonthFull(c.mon)
  IN IF c.mon = "" \/ c.ord # "" THEN None
     ELSE IF ma # 0 /\ ValidDate(c.y, ma, c.d) THEN <<c.y, ma, c.d>>
     ELSE IF mf # 0 /\ ValidDate(c.y, mf, c.d) THEN <<c.y, mf, c.d>>
     ELSE None

\* year of datetime.strptime without a %Y directive
DefaultYear == 1900

\* common.pdf_utils.normalize_date(s, "%d %b"): day and month, default year
normalize_date_dm(t) == <<DefaultYear, MonthAbbr(t.mon), t.d>>

\* common.pdf_utils.normalize_date(s, "%d/%m/%Y")
normalize_date_dmy(t) == <<t.y, t.m, t.d>>

\* int(iso[:4])
YearOf(iso) == iso[1]

\* strptime(iso, "%Y-%m-%d").month
MonthOf(iso) == iso[2]

\* datetime.replace(year = y), formatted "%Y-%m-%d"
ReplaceYear(iso, y) == <<y, iso[2], iso[3]>>

\* ------------------------------------------------------------------- lines
\* form: "blank"   an empty line (after strip)
\*       "text"    free text: words
\*       "labeled" <tok> [:] <date>            ("From:11th Jul 2025")
\*       "marker"  <tok>                       ("From", "To:", an Arabic word)
\*       "date"    <date>                      ("14th Jan 2025")
\*       "ei_txn"  <date> <date2> <words> <amt>[<cr>]
\*       "period"  <words> <date> TO <date2>   (dd/mm/yyyy)
\*       "rak_txn" <date> <words> AED <amt> [<cr>] - <bal> [<balcr>]
\*       "rak_fx"  <date> <ccy> <fx> <rate> <amt> [<cr>]
\* An absent credit marker is "", an absent token <<>> or NoDate.
Blank ==
  [form |-> "blank", words |-> <<>>, tok |-> "", date |-> NoDate, date2 |-> NoDate,
   amt |-> <<>>, cr |-> "", bal |-> <<>>, balcr |-> "", ccy |-> "", fx |-> <<>>,
   rate |-> <<>>]

Text(ws) == [Blank EXCEPT !.form = "text", !.words = ws]

Labeled(tok, date) == [Blank EXCEPT !.form = "labeled", !.tok = tok, !.date = date]

Marker(tok) == [Blank EXCEPT !.form = "marker", !.tok = tok]

BareDate(date) == [Blank EXCEPT !.form = "date", !.date = date]

EiTxn(date, date2, ws, amt, cr) ==
  [Blank EXCEPT !.form = "ei_txn", !.date = date, !.date2 = date2, !.words = ws,
                !.amt = amt, !.cr = cr]

Period(ws, date, date2) ==
  [Blank EXCEPT !.form = "period", !.words = ws, !.date = date, !.date2 = date2]

RakTxn(date, ws, amt, cr, bal, balcr) ==
  [Blank EXCEPT !.form = "rak_txn", !.date = date, !.words = ws, !.amt = amt,
                !.cr = cr, !.bal = bal, !.balcr = balcr]

RakFx(date, ccy, fx, rate, amt, cr) ==
  [Blank EXCEPT !.form = "rak_fx", !.date = date, !.ccy = ccy, !.fx = fx,
                !.rate = rate, !.amt = amt, !.cr = cr]

\* raw.lower(), as far as the phrase tests can see it: the words of the line
LowOf(line) == Low(line.words)

\* any(k in low for k in keywords)
AnyIn(keywords, low) == \E k \in keywords : Contains(low, k)

\* emiratesislamic.SKIP_KEYWORDS
SKIP_KEYWORDS_EI ==
  { <<"opening", "balance">>, <<"primary", "card", "no">>, <<"rewards", "summary">>,
    <<"cashback">>, <<"card", "limit">>, <<"minimum", "payment", "due">>,
    <<"payment", "due", "date">>, <<"profit/other", "charges">>,
    <<"current", "balance">>, <<"profit", "reversal">>, <<"finance", "charges">> }

\* rakbank.SKIP_KEYWORDS
SKIP_KEYWORDS_RAK ==
  { <<"opening", "balance">>, <<"closing", "balance">>, <<"available", "credit">>,
    <<"minimum", "payment", "due">>, <<"payment", "due", "date">>,
    <<"credit", "limit">> }

\* rakbank.DROP_HINTS
DROP_HINTS ==
  { <<"your", "credit", "card", "statement">>, <<"statement", "period">>,
    <<"product", "name">>, <<"card", "number">>, <<"page[">> }

\* mutant of SkipEi: the phrases are looked for in raw, not in raw.lower()
SkipEiCaseSensitive(line) == AnyIn(SKIP_KEYWORDS_EI, line.words)

\* emiratesislamic.py: any(k in low for k in SKIP_KEYWORDS)
SkipEi(line) == AnyIn(SKIP_KEYWORDS_EI, LowOf(line))

\* rakbank.py: any(k in low for k in SKIP_KEYWORDS)
SkipRak(line) == AnyIn(SKIP_KEYWORDS_RAK, LowOf(line))

\* FROM_TO_REGEX.match(raw)
FROM_TO_REGEX(line) ==
  /\ line.form = "labeled"
  /\ line.tok \in { "From", "FROM", "from", "To", "TO", "to" }
  /\ line.date.mon # "" /\ line.date.y > 0

\* which.lower() of the FROM_TO_REGEX match
WhichLower(tok) == IF tok \in { "From", "FROM", "from" } THEN "from" ELSE "to"

\* Marker tokens of the model.  "ar:ila" and "ar:min" stand for the Arabic
\* words of arabic_map ("to" and "from"); "ar:other" for an Arabic word that
\* is not in it.
\* raw.strip().strip(":").lower()
StripColonLower(tok) ==
  CASE tok = "From" -> "from"
    [] tok = "From:" -> "from"
    [] tok = "To" -> "to"
    [] tok = "To:" -> "to"
    [] tok = "To :" -> "to "
    [] tok = ":" -> ""
    [] OTHER -> tok

NoRange == "None"

\* _normalize_range_token(raw): "from", "to" or None
_normalize_range_token(line) ==
  IF line.form # "marker" THEN NoRange
  ELSE LET token == StripColonLower(line.tok)
       IN IF token = "" THEN NoRange
          ELSE IF token \in { "from", "to" } THEN token
          ELSE IF token = "ar:min" THEN "from"
          ELSE IF token = "ar:ila" THEN "to"
          ELSE NoRange

\* _parse_full_date(raw) on a whole line: only a bare date can parse
ParseLineAsDate(line) ==
  IF line.form = "date" THEN _parse_full_date(line.date) ELSE None

\* LINE_REGEX.match(raw)
LINE_REGEX(line) ==
  /\ line.form = "ei_txn"
  /\ line.words # <<>>
  /\ AmountEscaped(line.amt)

\* "statement period" in low
IsPeriodLine(line) == Contains(LowOf(line), <<"statement", "period">>)

\* STATEMENT_PERIOD_RE.search(raw)
STATEMENT_PERIOD_RE(line) == line.form = "period"

\* RAKBANK_LINE_REGEX.match(raw)
RAKBANK_LINE_REGEX(line) ==
  /\ line.form = "rak_txn"
  /\ line.words # <<>>
  /\ AmountUnescaped(line.amt)
  /\ AmountUnescaped(line.bal)

\* RAKBANK_FX_REGEX.match(raw)
RAKBANK_FX_REGEX(line) ==
  /\ line.form = "rak_fx"
  /\ AmountEscaped(line.fx) /\ AmountEscaped(line.rate) /\ AmountEscaped(line.amt)

\* ------------------------------------------------- parse_emiratesislamic
BANK_NAME_EI == "Emirates Islamic"
BANK_NAME_RAK == "RAKBANK"
CARD_TYPE == "credit"

\* The local variables of a parse call, as a record; role names what the
\* last line was taken for: "blank", "skip", "period" (a statement-period
\* line), "txn" (a transaction was appended), "raise" (an exception left
\* the call) or "other".
Loc(t, f, to, p, b, r) ==
  [transactions |-> t, statement_from |-> f, statement_to |-> to,
   pending_range |-> p, buffer_desc |-> b, role |-> r]

\* emiratesislamic.py 97-106: a labeled From/To line
ei_labeled(L, line) ==
  LET parsed == _parse_full_date(line.date)
      which == WhichLower(line.tok)
  IN [L EXCEPT !.statement_from = IF parsed # None /\ which = "from" THEN parsed ELSE @,
               !.statement_to = IF parsed # None /\ which # "from" THEN parsed ELSE @,
               !.pending_range = NoRange,
               !.role = "period"]

\* mutant of ei_marker: a marker already pending is not replaced
ei_marker_first_kept(L, normalized_range) ==
  IF normalized_range = "from" /\ L.statement_from # None THEN [L EXCEPT !.role = "period"]
  ELSE IF normalized_range = "to" /\ L.statement_to # None THEN [L EXCEPT !.role = "period"]
  ELSE IF L.pending_range # NoRange THEN [L EXCEPT !.role = "period"]
  ELSE [L EXCEPT !.pending_range = normalized_range, !.role = "period"]

\* mutant of ei_marker: a marker is set pending whatever the period holds
ei_marker_unguarded(L, normalized_range) ==
  [L EXCEPT !.pending_range = normalized_range, !.role = "period"]

\* emiratesislamic.py 109-115: a bare marker token
ei_marker(L, normalized_range) ==
  IF normalized_range = "from" /\ L.statement_from # None THEN [L EXCEPT !.role = "period"]
  ELSE IF normalized_range = "to" /\ L.statement_to # None THEN [L EXCEPT !.role = "period"]
  ELSE [L EXCEPT !.pending_range = normalized_range, !.role = "period"]

\* mutant of ei_pending_date: the marker stays pending after its date
ei_pending_date_keeps(L, parsed) ==
  [L EXCEPT !.statement_from = IF L.pending_range = "from" THEN parsed ELSE @,
            !.statement_to = IF L.pending_range = "from" THEN @ ELSE parsed,
            !.role = "period"]

\* emiratesislamic.py 119-125: a bare date while a marker is pending
ei_pending_date(L, parsed) ==
  [L EXCEPT !.statement_from = IF L.pending_range = "from" THEN parsed ELSE @,
            !.statement_to = IF L.pending_range = "from" THEN @ ELSE parsed,
            !.pending_range = NoRange,
            !.role = "period"]

\* emiratesislamic.py 137: cr or "payment received" in desc.lower()
ei_is_credit(cr, desc) ==
  cr # "" \/ Contains(Low(desc), <<"payment", "received">>)

\* mutant of ei_txn_date: one resolved boundary is enough to give its year
ei_txn_date_one_boundary(txn_date_raw, statement_from, statement_to) ==
  LET txn_date == normalize_date_dm(txn_date_raw)
  IN IF statement_to # None
     THEN LET txn_dt == ReplaceYear(txn_date, YearOf(statement_to))
          IN IF statement_from # None /\ MonthOf(statement_to) < 6 /\ MonthOf(txn_dt) > 6
             THEN ReplaceYear(txn_dt, YearOf(statement_from))
             ELSE txn_dt
     ELSE IF statement_from # None
          THEN ReplaceYear(txn_date, YearOf(statement_from))
          ELSE txn_date

\* mutant of ei_txn_date: June counts as a month of the second half
ei_txn_date_from_june(txn_date_raw, statement_from, statement_to) ==
  LET txn_date == normalize_date_dm(txn_date_raw)
  IN IF statement_from # None /\ statement_to # None
     THEN LET from_year == YearOf(statement_from)
              to_year == YearOf(statement_to)
              txn_dt == ReplaceYear(txn_date, to_year)
          IN IF MonthOf(statement_to) < 6 /\ MonthOf(txn_dt) >= 6
             THEN ReplaceYear(txn_dt, from_year)
             ELSE txn_dt
     ELSE txn_date

\* emiratesislamic.py 143-159: the date of a transaction
ei_txn_date(txn_date_raw, statement_from, statement_to) ==
  LET txn_date == normalize_date_dm(txn_date_raw)
  IN IF statement_from # None /\ statement_to # None
     THEN LET from_year == YearOf(statement_from)
              to_year == YearOf(statement_to)
              txn_dt == ReplaceYear(txn_date, to_year)
          IN IF MonthOf(statement_to) < 6 /\ MonthOf(txn_dt) > 6
             THEN ReplaceYear(txn_dt, from_year)
             ELSE txn_dt
     ELSE txn_date

\* mutant of ei_transaction: a transaction line abandons the pending marker
ei_transaction_abandons(L, line) ==
  LET desc == line.words
      amt_val == clean_amount_ei(line.amt)
      is_credit == ei_is_credit(line.cr, desc)
      txn == [transaction_date |-> ei_txn_date(line.date2, L.statement_from, L.statement_to),
              description |-> desc,
              debit |-> IF is_credit THEN 0 ELSE amt_val,
              credit |-> IF is_credit THEN amt_val ELSE 0,
              amount |-> amt_val,
              bank |-> BANK_NAME_EI,
              card_type |-> CARD_TYPE]
  IN [L EXCEPT !.transactions = Append(@, txn), !.pending_range = NoRange,
               !.role = "txn"]

\* emiratesislamic.py 133-169: a line LINE_REGEX matches
ei_transaction(L, line) ==
  LET desc == line.words
      amt_val == clean_amount_ei(line.amt)
      is_credit == ei_is_credit(line.cr, desc)
      txn == [transaction_date |-> ei_txn_date(line.date2, L.statement_from, L.statement_to),
              description |-> desc,
              debit |-> IF is_credit THEN 0 ELSE amt_val,
              credit |-> IF is_credit THEN amt_val ELSE 0,
              amount |-> amt_val,
              bank |-> BANK_NAME_EI,
              card_type |-> CARD_TYPE]
  IN [L EXCEPT !.transactions = Append(@, txn), !.role = "txn"]

\* emiratesislamic.py 86-169: the body of the line loop
EiLine(L, line) ==
  IF line.form = "blank" THEN [L EXCEPT !.role = "blank"]
  ELSE IF SkipEi(line) THEN [L EXCEPT !.role = "skip"]
  ELSE IF FROM_TO_REGEX(line) THEN ei_labeled(L, line)
  ELSE IF _normalize_range_token(line) # NoRange
       THEN ei_marker(L, _normalize_range_token(line))
  ELSE IF L.pending_range # NoRange /\ ParseLineAsDate(line) # None
       THEN ei_pending_date(L, ParseLineAsDate(line))
  ELSE IF LINE_REGEX(line) THEN ei_transaction(L, line)
  ELSE [L EXCEPT !.role = "other"]

\* ------------------------------------------------------------ parse_rakbank
\* raw, as the text a description is made of: the words of a text line; a
\* line of another layout that is taken for text is its words after one
\* stand-in word for its other tokens
RawWords(line) ==
  IF line.form = "text" THEN line.words ELSE <<line.form>> \o line.words

\* mutant of rak_buffer: only the fragments that hold a drop hint are removed
rak_buffer_filtered(b) ==
  SelectSeq(b, LAMBDA f : ~AnyIn(DROP_HINTS, Low(f)))

\* mutant of rak_buffer: the test for a drop hint is inverted
rak_buffer_inverted(b) ==
  IF AnyIn(DROP_HINTS, Low(Flatten(b))) THEN b ELSE <<>>

\* rakbank.py 83-84, 116-117: the buffer, emptied when it holds a drop hint
rak_buffer(b) ==
  IF AnyIn(DROP_HINTS, Low(Flatten(b))) THEN <<>> ELSE b

\* rakbank.py 95, 128: the credit test
rak_is_credit(has_cr_flag, full_desc) ==
  \/ has_cr_flag
  \/ Contains(Low(full_desc), <<"payment">>)
  \/ Contains(Low(full_desc), <<"refund">>)

\* rakbank.py 72-77: a line holding "statement period"
rak_period(L, line) ==
  IF STATEMENT_PERIOD_RE(line)
  THEN [L EXCEPT !.statement_from = normalize_date_dmy(line.date),
                 !.statement_to = normalize_date_dmy(line.date2),
                 !.role = "period"]
  ELSE [L EXCEPT !.role = "period"]

\* rakbank.py 82-110: a line RAKBANK_LINE_REGEX matches
rak_transaction(L, line) ==
  LET buf == rak_buffer(L.buffer_desc)
      full_desc == Flatten(buf \o <<line.words>>)
  IN IF clean_amount_rak_raises(line.amt) \/ clean_amount_rak_raises(line.bal)
     THEN [L EXCEPT !.buffer_desc = <<>>, !.role = "raise"]
     ELSE LET amt_val == clean_amount_rak(line.amt)
              balance_val == clean_amount_rak(line.bal)
              is_credit == rak_is_credit(line.cr # "" \/ line.balcr # "", full_desc)
              txn == [transaction_date |-> normalize_date_dmy(line.date),
                      description |-> full_desc,
                      debit |-> IF is_credit THEN 0 ELSE amt_val,
                      credit |-> IF is_credit THEN amt_val ELSE 0,
                      amount |-> amt_val,
                      balance |-> balance_val,
                      bank |-> BANK_NAME_RAK,
                      card_type |-> CARD_TYPE]
          IN [L EXCEPT !.transactions = Append(@, txn), !.buffer_desc = <<>>,
                       !.role = "txn"]

\* mutant of rak_fx_transaction: the amount is the foreign amount
rak_fx_transaction_foreign(L, line) ==
  LET buf == rak_buffer(L.buffer_desc)
      full_desc == Flatten(buf)
      fx_amt_val == clean_amount_rak(line.fx)
      fx_rate_val == clean_amount_rak(line.rate)
      aed_val == clean_amount_rak(line.fx)
      is_credit == rak_is_credit(line.cr # "", full_desc)
      txn == [transaction_date |-> normalize_date_dmy(line.date),
              description |-> full_desc,
              debit |-> IF is_credit THEN 0 ELSE aed_val,
              credit |-> IF is_credit THEN aed_val ELSE 0,
              amount |-> aed_val,
              bank |-> BANK_NAME_RAK,
              card_type |-> CARD_TYPE,
              fx_currency |-> line.ccy,
              fx_amount |-> fx_amt_val,
              fx_rate |-> fx_rate_val]
  IN [L EXCEPT !.transactions = Append(@, txn), !.buffer_desc = <<>>, !.role = "txn"]

\* mutant of rak_fx_transaction: the record is put first in the list
rak_fx_transaction_first(L, line) ==
  LET buf == rak_buffer(L.buffer_desc)
      full_desc == Flatten(buf)
      fx_amt_val == clean_amount_rak(line.fx)
      fx_rate_val == clean_amount_rak(line.rate)
      aed_val == clean_amount_rak(line.amt)
      is_credit == rak_is_credit(line.cr # "", full_desc)
      txn == [transaction_date |-> normalize_date_dmy(line.date),
              description |-> full_desc,
              debit |-> IF is_credit THEN 0 ELSE aed_val,
              credit |-> IF is_credit THEN aed_val ELSE 0,
              amount |-> aed_val,
              bank |-> BANK_NAME_RAK,
              card_type |-> CARD_TYPE,
              fx_currency |-> line.ccy,
              fx_amount |-> fx_amt_val,
              fx_rate |-> fx_rate_val]
  IN [L EXCEPT !.transactions = <<txn>> \o @, !.buffer_desc = <<>>, !.role = "txn"]

\* rakbank.py 115-146: a line RAKBANK_FX_REGEX matches
rak_fx_transaction(L, line) ==
  LET buf == rak_buffer(L.buffer_desc)
      full_desc == Flatten(buf)
      fx_amt_val == clean_amount_rak(line.fx)
      fx_rate_val == clean_amount_rak(line.rate)
      aed_val == clean_amount_rak(line.amt)
      is_credit == rak_is_credit(line.cr # "", full_desc)
      txn == [transaction_date |-> normalize_date_dmy(line.date),
              description |-> full_desc,
              debit |-> IF is_credit THEN 0 ELSE aed_val,
              credit |-> IF is_credit THEN aed_val ELSE 0,
              amount |-> aed_val,
              bank |-> BANK_NAME_RAK,
              card_type |-> CARD_TYPE,
              fx_currency |-> line.ccy,
              fx_amount |-> fx_amt_val,
              fx_rate |-> fx_rate_val]
  IN [L EXCEPT !.transactions = Append(@, txn), !.buffer_desc = <<>>, !.role = "txn"]

\* rakbank.py 65-149: the body of the line loop (blank lines are filtered
\* out of `lines` at line 61)
RakLine(L, line) ==
  IF line.form = "blank" THEN [L EXCEPT !.role = "blank"]
  ELSE IF SkipRak(line) THEN [L EXCEPT !.role = "skip"]
  ELSE IF IsPeriodLine(line) THEN rak_period(L, line)
  ELSE IF RAKBANK_LINE_REGEX(line) THEN rak_transaction(L, line)
  ELSE IF RAKBANK_FX_REGEX(line) THEN rak_fx_transaction(L, line)
  ELSE [L EXCEPT !.buffer_desc = Append(@, RawWords(line)), !.role = "other"]

\* ------------------------------------------------------- the input lines
D_15Dec2024 == NamedDate(15, "th", "Dec", 2024)
D_14Jan2025 == NamedDate(14, "th", "Jan", 2025)
D_30Jun2025 == NamedDate(30, "", "June", 2025)
D_1Jul2025 == NamedDate(1, "st", "Jul", 2025)

DM(d, mon) == NamedDate(d, "", mon, 0)

\* lines of an Emirates Islamic statement
EiLines ==
  { Text(<<"SHOP">>),
    Text(<<"Minimum", "Payment", "Due">>),
    Labeled("From", D_15Dec2024),
    Labeled("To", D_14Jan2025),
    Marker("From:"),
    Marker("ar:ila"),
    BareDate(D_1Jul2025),
    BareDate(D_30Jun2025),
    EiTxn(DM(14, "AUG"), DM(12, "AUG"), <<"SHOP">>, <<"1", "0", "0", ".", "0", "0">>, ""),
    EiTxn(DM(15, "JUL"), DM(14, "JUL"), <<"Payment", "Received">>, <<"5", ".", "0", "0">>, ""),
    EiTxn(DM(30, "JUN"), DM(30, "JUN"), <<"SHOP">>, <<"0", ".", "0", "0">>, ""),
    EiTxn(DM(2, "JAN"), DM(1, "JAN"), <<"STORE">>, <<"1", ",", "2", "3", "4", ".", "5", "6">>, "CR"),
    EiTxn(DM(14, "AUG"), DM(12, "AUG"), <<"Cashback">>, <<"5", ".", "0", "0">>, "") }

N_15Aug2025 == NumDate(15, 8, 2025)
N_14Sep2025 == NumDate(14, 9, 2025)
N_1Sep2025 == NumDate(1, 9, 2025)
N_15Sep2025 == NumDate(15, 9, 2025)

A_100 == <<"1", "0", "0", ".", "0", "0">>
A_500 == <<"5", "0", "0", ".", "0", "0">>

\* lines of a RAKBANK statement
RakLines ==
  { Text(<<"STORE">>),
    Text(<<"Repayments">>),
    Text(<<"Card", "Number">>),
    Text(<<"Minimum", "Payment", "Due">>),
    Period(<<"Statement", "Period:">>, N_15Aug2025, N_14Sep2025),
    Period(<<"Statement", "Period:">>, N_15Sep2025, N_15Sep2025),
    RakTxn(N_1Sep2025, <<"SHOP">>, A_100, "", A_500, ""),
    RakTxn(N_1Sep2025, <<"REFUND">>, <<"1", "2", "3", "4", "5">>, "", A_500, ""),
    RakTxn(N_1Sep2025, <<"SHOP">>, <<"0", ".", "0", "0">>, "", <<",", ",", "0", "0">>, "CR"),
    RakTxn(N_1Sep2025, <<"SHOP">>, <<"5", "x", "0", "0">>, "", A_500, ""),
    RakTxn(N_1Sep2025, <<"Minimum", "Payment", "Due">>, A_100, "", A_500, ""),
    RakFx(N_1Sep2025, "USD", <<"1", "0", ".", "0", "0">>, <<"3", ".", "6", "7">>, <<"3", "6", ".", "7", "0">>, ""),
    RakFx(N_1Sep2025, "EUR", <<"1", "0", ".", "0", "0">>, <<"4", ".", "0", "0">>, <<",", ".", "0", "0">>, "cr") }

Lines(p) == IF p = "ei" THEN EiLines ELSE RakLines

\* what open_pdf_safe may return in place of a document
ErrorDicts == { [error |-> "Incorrect password"], [error |-> "Cannot open PDF"] }

\* the opened document, when open_pdf_safe returns one
PdfObject == [pdf |-> "document"]

NoRet == [unset |-> TRUE]

\* ------------------------------------------------------------------- state
VARIABLES
  parser,          \* "ei": parse_emiratesislamic, "rak": parse_rakbank
  pc,              \* "call", "pages" (in the page loop), "returned", "raised"
  opened,          \* what open_pdf_safe returned
  on_page,         \* a page of the document has been begun
  nread,           \* lines read
  cur,             \* the line read last
  transactions, statement_from, statement_to, pending_range, buffer_desc,
  role,            \* what the line read last was taken for
  frags,           \* the lines taken for text since the last transaction; old: of an earlier page
  waited,          \* lines read, since a marker was set pending, with a marker pending
  dropped,         \* fragments the transaction line read last discarded from the buffer
  replaced,        \* times a pending marker gave way to the marker of the other boundary
  summarized,      \* calls of summarize_transactions in the call
  ret,             \* the value the call returned
  ncall,           \* the call: 1 an earlier call, 2 and 3 the two calls on one document
  pdf,             \* the pages call 2 has read, each the sequence of its lines
  todo,            \* the pages call 3 has still to read, the current page first
  first            \* how call 2 ended: its pc and the value it returned

vars ==
  <<parser, pc, opened, on_page, nread, cur, transactions, statement_from,
    statement_to, pending_range, buffer_desc, role, frags, waited, dropped, replaced, summarized,
    ret, ncall, pdf, todo, first>>

twice == <<ncall, pdf, todo, first>>

Locals ==
  Loc(transactions, statement_from, statement_to, pending_range, buffer_desc, role)

SetLocals(L) ==
  /\ transactions' = L.transactions
  /\ statement_from' = L.statement_from
  /\ statement_to' = L.statement_to
  /\ pending_range' = L.pending_range
  /\ buffer_desc' = L.buffer_desc
  /\ role' = L.role

\* emiratesislamic.py 73-75, rakbank.py 51-53: the state at the call
Init ==
  /\ parser \in { "ei", "rak" }
  /\ pc = "call"
  /\ opened = NoRet
  /\ on_page = FALSE
  /\ nread = 0
  /\ cur = Blank
  /\ transactions = <<>>
  /\ statement_from = None
  /\ statement_to = None
  /\ pending_range = NoRange
  /\ buffer_desc = <<>>
  /\ role = "blank"
  /\ frags = <<>>
  /\ waited = 0
  /\ dropped = 0
  /\ replaced = 0
  /\ summarized = 0
  /\ ret = NoRet
  /\ ncall = 1
  /\ pdf = <<>>
  /\ todo = <<>>
  /\ first = NoRet

\* mutant of OpenFails: the error dict is not returned, the call goes on
OpenFailsGoesOn ==
  /\ pc = "call"
  /\ \E e \in ErrorDicts : opened' = e
  /\ pc' = "pages"
  /\ UNCHANGED <<parser, on_page, nread, cur, transactions, statement_from,
                 statement_to, pending_range, buffer_desc, role, frags, waited, dropped, replaced,
                 summarized, ret, ncall, pdf, todo, first>>

\* emiratesislamic.py 77-79, rakbank.py 54-56: open_pdf_safe returns an error dict
OpenFails ==
  /\ pc = "call"
  /\ \E e \in ErrorDicts :
       /\ opened' = e
       /\ ret' = e
  /\ pc' = "returned"
  /\ UNCHANGED <<parser, on_page, nread, cur, transactions, statement_from,
                 statement_to, pending_range, buffer_desc, role, frags, waited, dropped, replaced, summarized>>
  /\ UNCHANGED twice

\* mutant of OpenPdf: pending_range is not bound anew (a module-level name)
OpenPdfStale ==
  /\ pc = "call"
  /\ opened' = PdfObject
  /\ pc' = "pages"
  /\ UNCHANGED <<parser, on_page, nread, cur, transactions, statement_from,
                 statement_to, pending_range, buffer_desc, role, frags, waited, dropped, replaced,
                 summarized, ret, ncall, pdf, todo, first>>

\* emiratesislamic.py 77-83, rakbank.py 54-58: open_pdf_safe returns the document
OpenPdf ==
  /\ pc = "call"
  /\ opened' = PdfObject
  /\ pending_range' = NoRange
  /\ pc' = "pages"
  /\ UNCHANGED <<parser, on_page, nread, cur, transactions, statement_from,
                 statement_to, buffer_desc, role, frags, waited, dropped, replaced, summarized, ret>>
  /\ UNCHANGED twice

\* mutant of BeginPage: the buffer is bound once, before the page loop
BeginPageKeepsBuffer ==
  /\ pc = "pages"
  /\ on_page' = TRUE
  /\ buffer_desc' = buffer_desc
  /\ frags' = [i \in 1..Len(frags) |-> [frags[i] EXCEPT !.old = TRUE]]
  /\ UNCHANGED <<parser, pc, opened, nread, cur, transactions, statement_from,
                 statement_to, pending_range, role, waited, dropped, replaced, summarized, ret>>

\* emiratesislamic.py 84-85, rakbank.py 59-63: a page of the document begins
BeginPage ==
  /\ pc = "pages"
  /\ on_page' = TRUE
  /\ buffer_desc' = IF parser = "rak" THEN <<>> ELSE buffer_desc
  /\ frags' = [i \in 1..Len(frags) |-> [frags[i] EXCEPT !.old = TRUE]]
  /\ UNCHANGED <<parser, pc, opened, nread, cur, transactions, statement_from,
                 statement_to, pending_range, role, waited, dropped, replaced, summarized, ret>>

\* the lines taken for text and not yet followed by a transaction
NextFrags(f, line, r) ==
  IF r \in { "txn", "raise" } THEN <<>>
  ELSE IF r = "other" THEN Append(f, [old |-> FALSE, words |-> RawWords(line)])
  ELSE f

\* one more each time a line puts another marker in the place of a pending one
NextReplaced(n, before, after) ==
  IF before # NoRange /\ after \notin { NoRange, before } THEN n + 1 ELSE n

\* the fragments a transaction line of parse_rakbank discards from the
\* buffer: those rak_buffer does not keep
NextDropped(line, r) ==
  IF parser = "rak" /\ r \in { "txn", "raise" }
  THEN Len(buffer_desc) - Len(rak_buffer(buffer_desc))
  ELSE 0

\* the lines a marker has been pending for: none when a line sets one, one
\* more with each line read while one is pending
NextWaited(w, before, after) ==
  IF before # NoRange THEN w + 1
  ELSE IF after # NoRange THEN 0
  ELSE w

\* one pass of the line loop on the line `line`
Step(line) ==
  LET L == IF parser = "ei" THEN EiLine(Locals, line) ELSE RakLine(Locals, line)
  IN /\ SetLocals(L)
     /\ cur' = line
     /\ nread' = nread + 1
     /\ frags' = NextFrags(frags, line, L.role)
     /\ waited' = NextWaited(waited, pending_range, L.pending_range)
     /\ dropped' = NextDropped(line, L.role)
     /\ replaced' = NextReplaced(replaced, pending_range, L.pending_range)
     /\ pc' = IF L.role = "raise" THEN "raised" ELSE pc
     /\ UNCHANGED <<parser, opened, on_page, summarized, ret>>

\* the next page of a document of any text
NextPage == BeginPage /\ UNCHANGED twice

\* emiratesislamic.py 86-169, rakbank.py 65-149: the next line of the page,
\* of a document of any text
ReadLine ==
  /\ pc = "pages"
  /\ on_page
  /\ nread < MaxLines
  /\ \E line \in Lines(parser) : Step(line)
  /\ UNCHANGED twice

RECURSIVE SumOf(_, _)
SumOf(txns, k) ==
  IF txns = <<>> THEN 0
  ELSE (IF k = "debit" THEN Head(txns).debit ELSE Head(txns).credit) + SumOf(Tail(txns), k)

\* common.pdf_utils.normalize_transactions: every record carries bank and card type
normalize_transactions(txns, bank, card) ==
  [i \in 1..Len(txns) |-> [txns[i] EXCEPT !.bank = bank, !.card_type = card]]

\* common.pdf_utils.summarize_transactions
summarize_transactions(txns) ==
  [total_debit |-> SumOf(txns, "debit"), total_credit |-> SumOf(txns, "credit"),
   count |-> Len(txns)]

\* emiratesislamic.py 171-180, rakbank.py 150-158: the result of the call
Result ==
  LET bank == IF parser = "ei" THEN BANK_NAME_EI ELSE BANK_NAME_RAK
      normalized == normalize_transactions(transactions, bank, CARD_TYPE)
  IN [bank |-> bank, card_type |-> CARD_TYPE,
      summary |-> summarize_transactions(normalized),
      transactions |-> normalized,
      from_date |-> statement_from, to_date |-> statement_to]

\* emiratesislamic.py 171-180, rakbank.py 150-158: end of the pages
EndOfPages ==
  /\ pc = "pages"
  /\ ret' = Result
  /\ summarized' = summarized + 1
  /\ pc' = "returned"
  /\ UNCHANGED <<parser, opened, on_page, nread, cur, transactions, statement_from,
                 statement_to, pending_range, buffer_desc, role, frags, waited, dropped, replaced>>

\* the end of a document of any text
Return == EndOfPages /\ UNCHANGED twice

Next == OpenFails \/ OpenPdf \/ NextPage \/ ReadLine \/ Return

Spec == Init /\ [][Next]_vars

\* --------------------------------------------- several calls in one process
\* An earlier call on any text (call 1, optional), then two calls on one
\* document: call 2 reads it as it comes and pdf records it, call 3 reads pdf
\* again.  No call fails to open its document.
InitTwice ==
  /\ parser \in { "ei", "rak" }
  /\ pc = "call"
  /\ opened = NoRet
  /\ on_page = FALSE
  /\ nread = 0
  /\ cur = Blank
  /\ transactions = <<>>
  /\ statement_from = None
  /\ statement_to = None
  /\ pending_range = NoRange
  /\ buffer_desc = <<>>
  /\ role = "blank"
  /\ frags = <<>>
  /\ waited = 0
  /\ dropped = 0
  /\ replaced = 0
  /\ summarized = 0
  /\ ret = NoRet
  /\ ncall \in { 1, 2 }
  /\ pdf = <<>>
  /\ todo = <<>>
  /\ first = NoRet

\* how the current call ended
Outcome == [pc |-> pc, ret |-> ret]

\* emiratesislamic.py 72-75, rakbank.py 50-53: the next call begins.  The
\* names the function binds later in the call (pending_range at
\* emiratesislamic.py 81, buffer_desc at rakbank.py 63) keep what the call
\* before left in them until the call binds them; the other parser has no
\* such name.
CallAgain ==
  /\ pc \in { "returned", "raised" }
  /\ ncall < 3
  /\ ncall' = ncall + 1
  /\ first' = IF ncall = 2 THEN Outcome ELSE first
  /\ todo' = IF ncall = 2 THEN pdf ELSE todo
  /\ \E p \in { "ei", "rak" } :
       /\ ncall = 2 => p = parser
       /\ parser' = p
       /\ pending_range' = IF p = "ei" THEN pending_range ELSE NoRange
       /\ buffer_desc' = IF p = "rak" THEN buffer_desc ELSE <<>>
  /\ pc' = "call"
  /\ transactions' = <<>>
  /\ statement_from' = None
  /\ statement_to' = None
  /\ opened' = NoRet
  /\ on_page' = FALSE
  /\ nread' = 0
  /\ cur' = Blank
  /\ role' = "blank"
  /\ frags' = <<>>
  /\ waited' = 0
  /\ dropped' = 0
  /\ replaced' = 0
  /\ ret' = NoRet
  /\ summarized' = 0
  /\ UNCHANGED pdf

\* call 1: the next page, the next line, of any text
PriorPage == ncall = 1 /\ BeginPage /\ UNCHANGED twice

PriorLine ==
  /\ ncall = 1
  /\ pc = "pages"
  /\ on_page
  /\ nread < MaxPriorLines
  /\ \E line \in Lines(parser) : Step(line)
  /\ UNCHANGED twice

\* call 2: the next page, the next line, of the document, recorded in pdf
RecordPage ==
  /\ ncall = 2
  /\ Len(pdf) < MaxDocPages
  /\ BeginPage
  /\ pdf' = Append(pdf, <<>>)
  /\ UNCHANGED <<ncall, todo, first>>

RecordLine ==
  /\ ncall = 2
  /\ pc = "pages"
  /\ on_page
  /\ nread < MaxDocLines
  /\ \E line \in Lines(parser) :
       /\ Step(line)
       /\ pdf' = [pdf EXCEPT ![Len(pdf)] = Append(@, line)]
  /\ UNCHANGED <<ncall, todo, first>>

\* call 3: the next page, the next line, of pdf
ReplayPage ==
  /\ ncall = 3
  /\ todo # <<>>
  /\ on_page => Head(todo) = <<>> /\ Len(todo) > 1
  /\ BeginPage
  /\ todo' = IF on_page THEN Tail(todo) ELSE todo
  /\ UNCHANGED <<ncall, pdf, first>>

ReplayLine ==
  /\ ncall = 3
  /\ pc = "pages"
  /\ on_page
  /\ todo # <<>> /\ Head(todo) # <<>>
  /\ Step(Head(Head(todo)))
  /\ todo' = <<Tail(Head(todo))>> \o Tail(todo)
  /\ UNCHANGED <<ncall, pdf, first>>

\* no page and no line of pdf is left to read
ReplayDone == todo = <<>> \/ (on_page /\ todo = << <<>> >>)

\* the call returns at the end of its document
ReturnTwice ==
  /\ ncall = 3 => ReplayDone
  /\ EndOfPages
  /\ UNCHANGED twice

NextTwice ==
  \/ OpenPdf \/ CallAgain
  \/ PriorPage \/ PriorLine
  \/ RecordPage \/ RecordLine
  \/ ReplayPage \/ ReplayLine
  \/ ReturnTwice

SpecTwice == InitTwice /\ [][NextTwice]_vars

\* ------------------------------------------------------------------ claims
\* a line has just been read: the step is a pass of the line loop, on cur'
Reading == nread' = nread + 1

\* C1: every transaction has exactly one of debit and credit nonzero, the
\* other exactly 0, and the nonzero one equals amount.
C1_ExactlyOneSide ==
  \A i \in 1..Len(transactions) :
    LET t == transactions[i]
    IN \/ t.debit # 0 /\ t.credit = 0 /\ t.debit = t.amount
       \/ t.credit # 0 /\ t.debit = 0 /\ t.credit = t.amount

\* C2: once a boundary of the statement period holds a date, no later line
\* changes it.
C2_FirstWins ==
  [][ /\ (statement_from # None => statement_from' = statement_from)
      /\ (statement_to # None => statement_to' = statement_to) ]_vars

\* the lowercase text of the line holds a phrase of its parser's SKIP_KEYWORDS
Boilerplate(p, line) ==
  AnyIn(IF p = "ei" THEN SKIP_KEYWORDS_EI ELSE SKIP_KEYWORDS_RAK, Low(line.words))

\* C3: a line holding a skip phrase leaves the transactions, the description
\* buffer, the period and the pending marker as they were, whatever shape it
\* has.
C3_SkipLineFrame ==
  [][ Reading /\ Boilerplate(parser, cur')
      => UNCHANGED <<transactions, buffer_desc, statement_from, statement_to,
                     pending_range>> ]_vars

\* C3 witness: a skipped line of the transaction shape, read with a
\* transaction collected and a marker pending.
C3_Witness ==
  /\ parser = "ei"
  /\ Boilerplate("ei", cur) /\ LINE_REGEX(cur)
  /\ role = "skip"
  /\ pending_range # NoRange
  /\ Len(transactions) > 0

\* the boundary a pending marker stands for
Boundary(which, from, to) == IF which = "from" THEN from ELSE to

\* C4, as claimed: with a marker pending, a line that is boilerplate or is no
\* bare full date leaves it pending, and a bare full date resolves its
\* boundary and clears it.
C4_Original ==
  [][ parser = "ei" /\ Reading /\ pending_range # NoRange
      => IF ~Boilerplate("ei", cur') /\ ParseLineAsDate(cur') # None
         THEN /\ Boundary(pending_range, statement_from', statement_to') = ParseLineAsDate(cur')
              /\ pending_range' = NoRange
         ELSE pending_range' = pending_range ]_vars

\* a labeled From/To line, or the bare marker of the other boundary while
\* that boundary is unresolved
Supersedes(line, pending, from, to) ==
  \/ FROM_TO_REGEX(line)
  \/ /\ _normalize_range_token(line) \notin { NoRange, pending }
     /\ Boundary(_normalize_range_token(line), from, to) = None

\* C4, amended: the same, for lines that are neither a labeled From/To line
\* nor the bare marker of the other, unresolved boundary.
C4_PendingKept ==
  [][ /\ parser = "ei" /\ Reading /\ pending_range # NoRange
      /\ (Boilerplate("ei", cur')
           \/ ~Supersedes(cur', pending_range, statement_from, statement_to))
      => IF ~Boilerplate("ei", cur') /\ ParseLineAsDate(cur') # None
         THEN /\ Boundary(pending_range, statement_from', statement_to') = ParseLineAsDate(cur')
              /\ pending_range' = NoRange
         ELSE pending_range' = pending_range ]_vars

\* C4 witness: a marker, a text line, then the bare date that resolves the
\* boundary.
C4_Witness ==
  /\ parser = "ei"
  /\ nread = 3 /\ waited = 2
  /\ frags # <<>>
  /\ role = "period" /\ cur.form = "date"
  /\ pending_range = NoRange
  /\ statement_to = ParseLineAsDate(cur)
  /\ statement_from = None

\* the words of the lines in fs
FragWords(fs) == Flatten([i \in 1..Len(fs) |-> fs[i].words])

\* the lines of fs read on the current page
RECURSIVE OnThisPage(_)
OnThisPage(fs) ==
  IF fs = <<>> THEN <<>>
  ELSE IF Head(fs).old THEN OnThisPage(Tail(fs))
       ELSE <<Head(fs)>> \o OnThisPage(Tail(fs))

\* the description a transaction line carries itself
OwnDesc(line) == IF line.form = "rak_fx" THEN <<>> ELSE line.words

C6_YearResolution ==
  [][ /\ parser = "ei" /\ Reading /\ role' = "txn"
      /\ statement_from # None /\ statement_to # None
      => LET m == MonthAbbr(cur'.date2.mon)
             y == IF statement_to[2] < 6 /\ m > 6 THEN statement_from[1] ELSE statement_to[1]
         IN transactions'[Len(transactions')].transaction_date = <<y, m, cur'.date2.d>> ]_vars

\* C6 witness: period 2024-12-15 .. 2025-01-14, "12 AUG" becomes 2024-08-12.
C6_Witness ==
  /\ parser = "ei" /\ role = "txn"
  /\ statement_from = <<2024, 12, 15>> /\ statement_to = <<2025, 1, 14>>
  /\ cur.date2 = DM(12, "AUG")
  /\ Last(transactions).transaction_date = <<2024, 8, 12>>

\* the line has one of the transaction shapes of its parser
TransactionShape(p, line) ==
  IF p = "ei" THEN LINE_REGEX(line)
  ELSE RAKBANK_LINE_REGEX(line) \/ RAKBANK_FX_REGEX(line)

\* the line is taken for a statement-period line before the shapes are tried
PeriodFirst(p, line, pending) ==
  IF p = "ei"
  THEN \/ FROM_TO_REGEX(line)
       \/ _normalize_range_token(line) # NoRange
       \/ pending # NoRange /\ ParseLineAsDate(line) # None
  ELSE IsPeriodLine(line)

\* C7: a line of a transaction shape always yields a transaction, whatever
\* its amount token, and the line loop goes on: clean_amount never raises.
C7_AmountNeverAborts ==
  [][ /\ Reading /\ ~Boilerplate(parser, cur')
      /\ ~PeriodFirst(parser, cur', pending_range)
      /\ TransactionShape(parser, cur')
      => /\ Len(transactions') = Len(transactions) + 1
         /\ pc' = "pages" ]_vars

\* C8: a call in which open_pdf_safe returned an error dict returns that
\* dict, having read no page and no line, collected no transaction and
\* never called the summarizer.
C8_ErrorPassthrough ==
  (pc = "returned" /\ "error" \in DOMAIN opened)
    => /\ ret = opened
       /\ ~on_page /\ nread = 0
       /\ transactions = <<>>
       /\ summarized = 0

\* C8 witness: a call that returned the error dict.
C8_Witness ==
  /\ pc = "returned"
  /\ opened \in ErrorDicts
  /\ ret = opened

\* the credit markers the shape of the line captured
CapturedCr(line) ==
  IF line.form = "rak_txn" THEN line.cr # "" \/ line.balcr # "" ELSE line.cr # ""

\* the description holds a credit keyword of the parser
CreditKeyword(p, desc) ==
  IF p = "ei" THEN Contains(Low(desc), <<"payment", "received">>)
  ELSE Contains(Low(desc), <<"payment">>) \/ Contains(Low(desc), <<"refund">>)

\* C10: a transaction is a credit (credit = amount, debit = 0) if and only if
\* a credit marker was captured or its description holds a credit keyword
\* of its parser, and a debit (debit = amount, credit = 0) in every other
\* case.
C10_CreditIff ==
  [][ Reading /\ role' = "txn"
      => LET t == transactions'[Len(transactions')]
             x == CapturedCr(cur') \/ CreditKeyword(parser, t.description)
         IN /\ (t.credit = t.amount /\ t.debit = 0) <=> x
            /\ ~x => t.debit = t.amount /\ t.credit = 0 ]_vars

\* C9: the second of two calls on the same pages ends as the first did (the
\* same transactions in the same order, the same from_date and to_date),
\* whatever call ran before them; each call starts its line loop with no
\* transaction, no period, no pending marker, and each page of parse_rakbank
\* with an empty buffer.
C9_SameResult ==
  /\ (ncall = 3 /\ pc \in { "returned", "raised" }) => Outcome = first
  /\ (pc = "pages" /\ nread = 0)
       => /\ transactions = <<>>
          /\ statement_from = None /\ statement_to = None
          /\ pending_range = NoRange
          /\ (on_page /\ parser = "rak") => buffer_desc = <<>>

\* C9 witness: the second call has returned what the first returned, a
\* transaction and a date among it, and both left a marker pending.
C9_Witness ==
  /\ ncall = 3 /\ pc = "returned"
  /\ Outcome = first
  /\ pending_range # NoRange
  /\ Len(ret.transactions) > 0

\* C11, as claimed: with a marker pending, a transaction line or a
\* boilerplate line clears the pending marker.
C11_Original ==
  [][ /\ parser = "ei" /\ Reading /\ pending_range # NoRange
      /\ (Boilerplate("ei", cur') \/ role' = "txn")
      => pending_range' = NoRange ]_vars

\* C11, amended: with a marker pending, a transaction line or a boilerplate
\* line leaves the marker pending and the period as it was, and a bare full
\* date read while it is pending, after such lines too, resolves its
\* boundary.
C11_MarkerKept ==
  [][ parser = "ei" /\ Reading /\ pending_range # NoRange
      => /\ (Boilerplate("ei", cur') \/ role' = "txn")
              => /\ pending_range' = pending_range
                 /\ UNCHANGED <<statement_from, statement_to>>
         /\ (waited > 0 /\ ~Boilerplate("ei", cur') /\ cur'.form = "date"
               /\ ParseLineAsDate(cur') # None)
              => /\ Boundary(pending_range, statement_from', statement_to')
                      = ParseLineAsDate(cur')
                 /\ pending_range' = NoRange ]_vars

\* C11 witness: a marker, a transaction line and one more line that is no
\* text, then the bare date, which resolves the boundary.
C11_Witness ==
  /\ parser = "ei"
  /\ nread = 4 /\ waited = 3
  /\ frags = <<>>
  /\ Len(transactions) = 1
  /\ role = "period" /\ cur.form = "date"
  /\ pending_range = NoRange
  /\ statement_from = ParseLineAsDate(cur)
  /\ statement_to = None

\* the lines of fs as the buffer holds them
FragLines(fs) == [i \in 1..Len(fs) |-> fs[i].words]

\* C12: in parse_rakbank a transaction line read with a drop hint in the
\* buffer discards the whole buffer, so that its description is the line's
\* own alone; after every transaction line the buffer is empty; and the
\* buffer never holds anything but the text lines of the page read since the
\* last transaction line, so that no later description holds a discarded
\* fragment.
C12_DropHints ==
  [][ parser = "rak" /\ Reading
      => /\ buffer_desc' = FragLines(OnThisPage(frags'))
         /\ (RAKBANK_LINE_REGEX(cur') \/ RAKBANK_FX_REGEX(cur')) /\ role' # "skip"
              /\ role' # "period"
              => /\ buffer_desc' = <<>>
                 /\ role' \in { "txn", "raise" }
                 /\ (role' = "txn" /\ AnyIn(DROP_HINTS, Low(Flatten(buffer_desc))))
                      => /\ transactions'[Len(transactions')].description = OwnDesc(cur')
                         /\ dropped' = Len(buffer_desc) ]_vars

\* C12 witness: a transaction line that discarded a buffer of two lines.
C12_Witness ==
  /\ parser = "rak" /\ role = "txn"
  /\ dropped = 2
  /\ buffer_desc = <<>>
  /\ Last(transactions).description = OwnDesc(cur)

\* the transaction t carries the date and the amount of the line
FromLine(p, t, line) ==
  IF p = "ei"
  THEN /\ t.transaction_date[2] = MonthAbbr(line.date2.mon)
       /\ t.transaction_date[3] = line.date2.d
       /\ t.amount = clean_amount_ei(line.amt)
  ELSE /\ t.transaction_date = <<line.date.y, line.date.m, line.date.d>>
       /\ t.amount = clean_amount_rak(line.amt)

\* C13: a line read adds at most one transaction, made from that line, at
\* the end of the list, and leaves the transactions before it as they were;
\* nothing else changes the list.  The list is thus in the order in which
\* the lines were read.
C13_OneInOrder ==
  [][ IF Reading
      THEN \/ transactions' = transactions
           \/ /\ Len(transactions') = Len(transactions) + 1
              /\ SubSeq(transactions', 1, Len(transactions)) = transactions
              /\ TransactionShape(parser, cur')
              /\ FromLine(parser, transactions'[Len(transactions')], cur')
      ELSE transactions' = transactions ]_vars

\* C13 witness: a domestic and a foreign-currency transaction, collected in
\* that order, with other lines read before or between them.
C13_Witness ==
  /\ parser = "rak" /\ nread = 4
  /\ Len(transactions) = 2
  /\ "balance" \in DOMAIN transactions[1]
  /\ "fx_currency" \in DOMAIN transactions[2]
  /\ role = "txn" /\ cur.form = "rak_fx"

\* C14: a transaction of the foreign-currency shape has for description the
\* buffer as it was when the line was read (nothing when the buffer was
\* discarded for a drop hint) and nothing of the line; amount is the
\* home-currency amount of the line, and debit and credit are that amount on
\* one side and 0 on the other, whatever the foreign amount and the rate.
C14_FxHomeAmount ==
  [][ parser = "rak" /\ Reading /\ role' = "txn" /\ cur'.form = "rak_fx"
      => LET t == transactions'[Len(transactions')]
             aed == clean_amount_rak(cur'.amt)
         IN /\ t.description
                 = IF AnyIn(DROP_HINTS, Low(Flatten(buffer_desc))) THEN <<>>
                   ELSE Flatten(buffer_desc)
            /\ t.amount = aed
            /\ { t.debit, t.credit } \subseteq { 0, aed }
            /\ t.debit + t.credit = aed
            /\ t.fx_amount = clean_amount_rak(cur'.fx)
            /\ t.fx_rate = clean_amount_rak(cur'.rate) ]_vars

\* C14 witness: 10.00 USD at 3.67 after the text line STORE: a debit of
\* 36.70 described as STORE.
C14_Witness ==
  /\ parser = "rak" /\ role = "txn" /\ cur.form = "rak_fx"
  /\ Last(transactions).description = <<"STORE">>
  /\ Last(transactions).fx_amount = 1000
  /\ Last(transactions).fx_rate = 367
  /\ Last(transactions).amount = 3670
  /\ Last(transactions).debit = 3670 /\ Last(transactions).credit = 0

\* the pending marker is none, "from" or "to", and the boundary it stands
\* for holds no date
PendingUnresolved ==
  /\ pending_range \in { NoRange, "from", "to" }
  /\ pending_range = "from" => statement_from = None
  /\ pending_range = "to" => statement_to = None

\* C15: in parse_emiratesislamic the pending marker is always none, "from"
\* or "to" and its boundary is unresolved while it is pending; a bare date
\* that resolves a pending marker fills a boundary that held no date.
C15_PendingUnresolved ==
  /\ [](parser = "ei" => PendingUnresolved)
  /\ [][ /\ parser = "ei" /\ Reading /\ pending_range # NoRange
         /\ ~Boilerplate("ei", cur') /\ cur'.form = "date"
         => /\ Boundary(pending_range, statement_from, statement_to) = None
            /\ Boundary(pending_range, statement_from', statement_to') # None ]_vars

\* C15 witness: with statement_from resolved and "to" pending, the bare
\* marker From is read and changes nothing.
C15_Witness ==
  /\ parser = "ei"
  /\ cur.form = "marker" /\ _normalize_range_token(cur) = "from"
  /\ statement_from # None
  /\ pending_range = "to" /\ statement_to = None
  /\ waited > 0

\* the date normalize_date gives the day and month of the line, with the
\* year of a date parsed without one
DefaultDate(line) == <<DefaultYear, MonthAbbr(line.date2.mon), line.date2.d>>

\* C16: in parse_emiratesislamic a transaction line read before both
\* boundaries hold a date gets the default-year date; no later step changes
\* a transaction of the list; and the result returns each transaction with
\* the date it got when its line was read, also when from_date and to_date
\* are both set by then.
C16_DateFixedAtLine ==
  /\ [][ parser = "ei"
         => /\ \A i \in 1..Len(transactions) :
                 i <= Len(transactions') /\ transactions'[i] = transactions[i]
            /\ (Reading /\ role' = "txn"
                  /\ (statement_from = None \/ statement_to = None))
                 => transactions'[Len(transactions')].transaction_date
                      = DefaultDate(cur') ]_vars
  /\ []( (parser = "ei" /\ pc = "returned" /\ "transactions" \in DOMAIN ret)
           => /\ Len(ret.transactions) = Len(transactions)
              /\ \A i \in 1..Len(transactions) :
                   ret.transactions[i].transaction_date
                     = transactions[i].transaction_date )

\* C16 witness: a call that returned both from_date and to_date and a
\* transaction dated in the default year, read before the period was known.
C16_Witness ==
  /\ parser = "ei" /\ pc = "returned"
  /\ "transactions" \in DOMAIN ret
  /\ ret.from_date # None /\ ret.to_date # None
  /\ Len(ret.transactions) > 0
  /\ ret.transactions[1].transaction_date[1] = DefaultYear

\* the line is a bare marker token and nothing else
BareMarker(line) ==
  /\ ~Boilerplate("ei", line) /\ ~FROM_TO_REGEX(line)
  /\ _normalize_range_token(line) # NoRange

\* C17: in parse_emiratesislamic a bare marker for a boundary that holds no
\* date is the one pending after its line, whatever was pending before; a
\* bare date read with a marker pending resolves the boundary of that marker
\* alone and leaves none pending; and a line read with none pending, a bare
\* date too, resolves nothing unless it is a labeled line.  So 'From', 'To',
\* date1, date2 resolve statement_to to date1 and nothing else.
C17_OnePending ==
  [][ parser = "ei" /\ Reading
      => /\ (BareMarker(cur')
               /\ Boundary(_normalize_range_token(cur'), statement_from, statement_to) = None)
              => /\ pending_range' = _normalize_range_token(cur')
                 /\ UNCHANGED <<statement_from, statement_to>>
         /\ (pending_range = "to" /\ ~Boilerplate("ei", cur') /\ cur'.form = "date")
              => /\ statement_to' = ParseLineAsDate(cur')
                 /\ statement_from' = statement_from
                 /\ pending_range' = NoRange
         /\ (pending_range = "from" /\ ~Boilerplate("ei", cur') /\ cur'.form = "date")
              => /\ statement_from' = ParseLineAsDate(cur')
                 /\ statement_to' = statement_to
                 /\ pending_range' = NoRange
         /\ (pending_range = NoRange /\ ~FROM_TO_REGEX(cur'))
              => UNCHANGED <<statement_from, statement_to>> ]_vars

\* C17 witness: four lines, 'From', 'To', a date and another date: the
\* marker From gave way to To, statement_to is the first date, statement_from
\* holds none and the second date was taken for text.
C17_Witness ==
  /\ parser = "ei" /\ nread = 4
  /\ replaced = 1 /\ waited = 2
  /\ statement_from = None
  /\ statement_to # None
  /\ cur.form = "date" /\ role = "other"
  /\ ParseLineAsDate(cur) # statement_to
  /\ pending_range = NoRange
  /\ transactions = <<>>

\* a page begins: a step of the page loop that reads no line
PageBegins == pc = "pages" /\ pc' = "pages" /\ ~Reading

\* C18: in parse_rakbank the buffer is empty when a page begins, and the
\* description of a transaction is its own description after the text lines
\* of its page read since the last transaction line, or its own alone: no
\* line of an earlier page is in it.
C18_PageBuffer ==
  [][ parser = "rak"
      => /\ PageBegins => buffer_desc' = <<>> /\ transactions' = transactions
         /\ (Reading /\ role' = "txn")
              => LET d == transactions'[Len(transactions')].description
                 IN \/ d = FragWords(OnThisPage(frags)) \o OwnDesc(cur')
                    \/ d = OwnDesc(cur') ]_vars

\* C18 witness: a page has begun with text lines of the page before not
\* followed by a transaction: the buffer is empty.
C18_Witness ==
  /\ parser = "rak" /\ pc = "pages" /\ on_page
  /\ Len(frags) = 2 /\ frags[1].old /\ frags[2].old
  /\ role = "other"
  /\ buffer_desc = <<>>

====
